---- MODULE Spec2Model ----
(***************************************************************************)
(* Configuration shapes of the auth construct                              *)
(* (packages/auth-construct/src/types.ts).                                 *)
(*                                                                         *)
(* The file declares types only.  A type is modelled as the predicate      *)
(* "this value is assignable to the type"; a value is modelled by its      *)
(* shape: every leaf is the tag of a JavaScript value ("undefined",        *)
(* "true", "false", "function", "string", "number", a string literal such  *)
(* as "CODE") and every object is a record of such leaves.  An absent      *)
(* property and a property holding undefined are the same leaf             *)
(* "undefined": an optional property accepts both and a required property  *)
(* accepts neither.                                                        *)
(*                                                                         *)
(* The state machine is the life of one AuthProps object literal: it is    *)
(* authored, the compiler checks it against the declared types, and, when  *)
(* it is accepted, the construct consumes it.  The construct itself is not *)
(* part of types.ts; the two defaults it applies are taken from the        *)
(* documentation comments of AuthProps.accountRecovery and                 *)
(* MFA.enforcementType.                                                    *)
(*                                                                         *)
(* Types imported from aws-cdk-lib (the provider property bundles,         *)
(* OAuthScope, StandardAttributes, AccountRecovery) are opaque: a value of *)
(* such a type is the leaf "object", "array" or an enum member name.       *)
(* AuthProps.userAttributes and AuthProps.outputStorageStrategy are        *)
(* optional, of imported types, and left out.                              *)
(***************************************************************************)
EXTENDS Integers, Sequences, FiniteSets, TLC

VARIABLES props, pc, assignable, userPool

vars == <<props, pc, assignable, userPool>>

(***************************************************************************)
(* Bounds                                                                  *)
(***************************************************************************)
\* longest callbackUrls / logoutUrls array a candidate carries
MaxUrls == 2

(***************************************************************************)
(* Candidate values (what an author may write)                             *)
(***************************************************************************)
Undefined == "undefined"

SeqsUpTo(S, n) == UNION {[1..k -> S] : k \in 0..n}

EmailValues ==
    [kind : {"undefined", "true", "false"},
     verificationEmailStyle : {Undefined},
     verificationEmailBody : {Undefined},
     verificationEmailSubject : {Undefined}]
    \cup
    [kind : {"object"},
     verificationEmailStyle : {Undefined, "CODE", "LINK", "TEXT"},
     verificationEmailBody : {Undefined, "function", "string"},
     verificationEmailSubject : {Undefined, "string", "number"}]

PhoneValues ==
    [kind : {"undefined", "true", "false"}, verificationMessage : {Undefined}]
    \cup
    [kind : {"object"}, verificationMessage : {Undefined, "function", "string"}]

SmsValues ==
    [kind : {"undefined", "true", "false"}, smsMessage : {Undefined}]
    \cup
    [kind : {"object"}, smsMessage : {Undefined, "function", "string"}]

MfaAbsent ==
    [kind |-> "undefined", enforcementType |-> Undefined, totp |-> Undefined,
     sms |-> [kind |-> "undefined", smsMessage |-> Undefined]]

MfaValues ==
    {MfaAbsent}
    \cup
    [kind : {"object"},
     enforcementType : {Undefined, "OFF", "OPTIONAL", "REQUIRED", "ON"},
     totp : {Undefined, "true", "false", "string"},
     sms : SmsValues]

\* property names an author may write inside externalProviders
ProviderKeys ==
    {"google", "facebook", "loginWithAmazon", "signInWithApple", "oidc", "saml"}

UndeclaredKeys == {"twitter"}

UrlLists ==
    {[kind |-> "undefined", items |-> <<>>]}
    \cup
    [kind : {"array"}, items : SeqsUpTo({"string", "number"}, MaxUrls)]

ProvidersAbsent ==
    [kind |-> "undefined", keys |-> {},
     callbackUrls |-> [kind |-> "undefined", items |-> <<>>],
     logoutUrls |-> [kind |-> "undefined", items |-> <<>>]]

\* keys: the properties present other than the two url lists
ProviderValues ==
    {ProvidersAbsent}
    \cup
    [kind : {"object"},
     keys : SUBSET (ProviderKeys \cup {"scopes"} \cup UndeclaredKeys),
     callbackUrls : UrlLists,
     logoutUrls : UrlLists]

RecoveryValues == {Undefined, "EMAIL_ONLY", "PHONE_ONLY_WITHOUT_MFA", "NONE"}

EmailTrue ==
    [kind |-> "true", verificationEmailStyle |-> Undefined,
     verificationEmailBody |-> Undefined, verificationEmailSubject |-> Undefined]

PhoneAbsent == [kind |-> "undefined", verificationMessage |-> Undefined]

(***************************************************************************)
(* The declared types, as assignability predicates                         *)
(***************************************************************************)
\* a property declared "name?: T"
Optional(leaf, T) == leaf = Undefined \/ leaf \in T

\* a property declared "name: T"
Required(leaf, T) == leaf \in T

\* EmailLoginSettings: three optional properties
InEmailLoginSettings(v) ==
    /\ v.kind = "object"
    /\ Optional(v.verificationEmailStyle, {"CODE", "LINK"})
    /\ Optional(v.verificationEmailBody, {"function"})
    /\ Optional(v.verificationEmailSubject, {"string"})

\* variant: the flag widened to boolean
InEmailLoginBoolean(v) == v.kind \in {"true", "false"} \/ InEmailLoginSettings(v)

\* EmailLogin = true | EmailLoginSettings
InEmailLogin(v) == v.kind = "true" \/ InEmailLoginSettings(v)

\* PhoneNumberLogin = true | { verificationMessage?: (code) => string }
InPhoneNumberLogin(v) ==
    \/ v.kind = "true"
    \/ /\ v.kind = "object"
       /\ Optional(v.verificationMessage, {"function"})

\* variant: both properties optional in one object type
InBasicLoginOptionsBothOptional(l) ==
    /\ (l.email.kind = "undefined" \/ InEmailLogin(l.email))
    /\ (l.phone.kind = "undefined" \/ InPhoneNumberLogin(l.phone))

\* BasicLoginOptions =
\*   | { email: EmailLogin; phone?: PhoneNumberLogin }
\*   | { email?: EmailLogin; phone: PhoneNumberLogin }
InBasicLoginOptions(l) ==
    \/ /\ InEmailLogin(l.email)
       /\ (l.phone.kind = "undefined" \/ InPhoneNumberLogin(l.phone))
    \/ /\ (l.email.kind = "undefined" \/ InEmailLogin(l.email))
       /\ InPhoneNumberLogin(l.phone)

\* the sms property of MFASettings: boolean | { smsMessage: (code) => string }
InSms(v) ==
    \/ v.kind \in {"true", "false"}
    \/ /\ v.kind = "object"
       /\ Required(v.smsMessage, {"function"})

\* MFASettings = { totp: boolean; sms: boolean | {...} }
InMFASettings(v) ==
    /\ Required(v.totp, {"true", "false"})
    /\ InSms(v.sms)

\* variant: enforcementType declared optional
InMFAOptionalEnforcement(v) ==
    /\ v.kind = "object"
    /\ Optional(v.enforcementType, {"OFF", "OPTIONAL", "REQUIRED"})
    /\ InMFASettings(v)

\* MFA = { enforcementType: 'OFF' | 'OPTIONAL' | 'REQUIRED' } & MFASettings
InMFA(v) ==
    /\ v.kind = "object"
    /\ Required(v.enforcementType, {"OFF", "OPTIONAL", "REQUIRED"})
    /\ InMFASettings(v)

\* the properties ExternalProviderOptions declares, all of them optional
IdentityProviderFields ==
    {"google", "facebook", "loginWithAmazon", "signInWithApple", "oidc", "saml"}

GeneralConfigurationFields == {"scopes", "callbackUrls", "logoutUrls"}

\* variant: the saml property left out
ExternalProviderOptionsFieldsNoSaml ==
    (IdentityProviderFields \ {"saml"}) \cup GeneralConfigurationFields

ExternalProviderOptionsFields ==
    IdentityProviderFields \cup GeneralConfigurationFields

\* string[]
InStringArray(a) ==
    /\ a.kind = "array"
    /\ \A i \in 1..Len(a.items) : a.items[i] = "string"

\* the property names an externalProviders literal writes
PresentKeys(v) ==
    v.keys
    \cup (IF v.callbackUrls.kind = "undefined" THEN {} ELSE {"callbackUrls"})
    \cup (IF v.logoutUrls.kind = "undefined" THEN {} ELSE {"logoutUrls"})

\* ExternalProviderOptions, for an object literal: no property the type does
\* not declare, and every declared property either absent or of its type
InExternalProviderOptions(v) ==
    /\ v.kind = "object"
    /\ PresentKeys(v) \subseteq ExternalProviderOptionsFields
    /\ (v.callbackUrls.kind = "undefined" \/ InStringArray(v.callbackUrls))
    /\ (v.logoutUrls.kind = "undefined" \/ InStringArray(v.logoutUrls))

\* ExternalProviderProps = { externalProviders?: ExternalProviderOptions }
InExternalProviderProps(l) ==
    \/ l.externalProviders.kind = "undefined"
    \/ InExternalProviderOptions(l.externalProviders)

\* the type of AuthProps.loginWith: BasicLoginOptions & ExternalProviderProps
InLoginWith(l) == InBasicLoginOptions(l) /\ InExternalProviderProps(l)

\* AuthProps: loginWith is required, multifactor and accountRecovery optional
InAuthProps(p) ==
    /\ InLoginWith(p.loginWith)
    /\ (p.multifactor.kind = "undefined" \/ InMFA(p.multifactor))
    /\ Optional(p.accountRecovery, RecoveryValues \ {Undefined})

(***************************************************************************)
(* The defaults the construct applies to accepted props                    *)
(***************************************************************************)
\* a login method is enabled by true or by a settings object
LoginEnabled(v) == v.kind # "undefined"

\* variant: phone preferred over email
DefaultAccountRecoveryPhoneFirst(emailEnabled, phoneEnabled) ==
    IF phoneEnabled THEN "PHONE_ONLY_WITHOUT_MFA"
    ELSE IF emailEnabled THEN "EMAIL_ONLY"
    ELSE Undefined

DefaultAccountRecovery(emailEnabled, phoneEnabled) ==
    IF emailEnabled THEN "EMAIL_ONLY"
    ELSE IF phoneEnabled THEN "PHONE_ONLY_WITHOUT_MFA"
    ELSE Undefined

AccountRecoverySetting(p) ==
    IF p.accountRecovery # Undefined THEN p.accountRecovery
    ELSE DefaultAccountRecovery(LoginEnabled(p.loginWith.email),
                                LoginEnabled(p.loginWith.phone))

MfaEnforcement(p) ==
    IF p.multifactor.kind = "undefined" THEN "OFF"
    ELSE IF p.multifactor.enforcementType = Undefined THEN "OFF"
    ELSE p.multifactor.enforcementType

(***************************************************************************)
(* State machine                                                           *)
(***************************************************************************)
MakeProps(e, ph, ep, mf, ar) ==
    [loginWith |-> [email |-> e, phone |-> ph, externalProviders |-> ep],
     multifactor |-> mf,
     accountRecovery |-> ar]

\* the props an author may hand to the construct: every login and recovery
\* combination, every externalProviders literal, every multifactor literal
Candidates ==
    {MakeProps(e, ph, ProvidersAbsent, MfaAbsent, ar) :
        e \in EmailValues, ph \in PhoneValues, ar \in RecoveryValues}
    \cup
    {MakeProps(EmailTrue, PhoneAbsent, ep, MfaAbsent, Undefined) :
        ep \in ProviderValues}
    \cup
    {MakeProps(EmailTrue, PhoneAbsent, ProvidersAbsent, mf, Undefined) :
        mf \in MfaValues}

NothingAssignable ==
    [EmailLogin |-> FALSE, PhoneNumberLogin |-> FALSE,
     BasicLoginOptions |-> FALSE, ExternalProviderOptions |-> FALSE,
     loginWith |-> FALSE, MFA |-> FALSE, AuthProps |-> FALSE]

NoUserPool == [accountRecovery |-> "unset", mfa |-> "unset"]

Init ==
    /\ props \in Candidates
    /\ pc = "authored"
    /\ assignable = NothingAssignable
    /\ userPool = NoUserPool

\* the compiler checks the literal against the declared types
TypeCheck ==
    /\ pc = "authored"
    /\ assignable' =
        [EmailLogin |-> InEmailLogin(props.loginWith.email),
         PhoneNumberLogin |-> InPhoneNumberLogin(props.loginWith.phone),
         BasicLoginOptions |-> InBasicLoginOptions(props.loginWith),
         ExternalProviderOptions |->
             InExternalProviderOptions(props.loginWith.externalProviders),
         loginWith |-> InLoginWith(props.loginWith),
         MFA |-> InMFA(props.multifactor),
         AuthProps |-> InAuthProps(props)]
    /\ pc' = "checked"
    /\ UNCHANGED <<props, userPool>>

\* the construct consumes props that compiled
Construct ==
    /\ pc = "checked"
    /\ assignable.AuthProps
    /\ userPool' = [accountRecovery |-> AccountRecoverySetting(props),
                    mfa |-> MfaEnforcement(props)]
    /\ pc' = "constructed"
    /\ UNCHANGED <<props, assignable>>

Next == TypeCheck \/ Construct

Spec == Init /\ [][Next]_vars

TypeOK ==
    /\ props \in Candidates
    /\ pc \in {"authored", "checked", "constructed"}
    /\ assignable \in [DOMAIN NothingAssignable -> BOOLEAN]

(***************************************************************************)
(* Properties                                                              *)
(***************************************************************************)

\* C1: a value accepted as AuthProps.loginWith has email or phone present;
\* with neither it is rejected; email only, phone only and both together are
\* accepted (each given field being of its type, externalProviders too).
LoginWithNeedsEmailOrPhone ==
    pc # "authored" =>
        LET l == props.loginWith
            noEmail == l.email.kind = "undefined"
            noPhone == l.phone.kind = "undefined"
            providersFine ==
                \/ l.externalProviders.kind = "undefined"
                \/ assignable.ExternalProviderOptions
        IN  /\ assignable.loginWith => (~noEmail \/ ~noPhone)
            /\ (noEmail /\ noPhone) => ~assignable.AuthProps
            /\ (assignable.EmailLogin /\ noPhone /\ providersFine)
                   => assignable.loginWith
            /\ (noEmail /\ assignable.PhoneNumberLogin /\ providersFine)
                   => assignable.loginWith
            /\ (assignable.EmailLogin /\ assignable.PhoneNumberLogin
                   /\ providersFine) => assignable.loginWith

PhoneOnlyLoginAccepted ==
    /\ pc = "checked"
    /\ props.loginWith.email.kind = "undefined"
    /\ props.loginWith.phone.kind = "object"
    /\ assignable.loginWith

\* C2 as stated: the email field and the phone field each accept exactly the
\* boolean values and the settings objects.
LoginFieldsAcceptBooleans ==
    pc # "authored" =>
        LET e == props.loginWith.email
            ph == props.loginWith.phone
        IN  /\ assignable.EmailLogin <=>
                \/ e.kind \in {"true", "false"}
                \/ /\ e.kind = "object"
                   /\ e.verificationEmailStyle \in {Undefined, "CODE", "LINK"}
                   /\ e.verificationEmailBody \in {Undefined, "function"}
                   /\ e.verificationEmailSubject \in {Undefined, "string"}
            /\ assignable.PhoneNumberLogin <=>
                \/ ph.kind \in {"true", "false"}
                \/ /\ ph.kind = "object"
                   /\ ph.verificationMessage \in {Undefined, "function"}

\* C2 amended: the email field and the phone field each accept exactly the
\* value true and the settings objects (style CODE or LINK, body a function,
\* subject a string for email; verificationMessage a function for phone, every
\* setting optional); false is not accepted.
LoginFieldsAcceptTrueOrSettings ==
    pc # "authored" =>
        LET e == props.loginWith.email
            ph == props.loginWith.phone
        IN  /\ assignable.EmailLogin <=>
                \/ e.kind = "true"
                \/ /\ e.kind = "object"
                   /\ e.verificationEmailStyle \in {Undefined, "CODE", "LINK"}
                   /\ e.verificationEmailBody \in {Undefined, "function"}
                   /\ e.verificationEmailSubject \in {Undefined, "string"}
            /\ assignable.PhoneNumberLogin <=>
                \/ ph.kind = "true"
                \/ /\ ph.kind = "object"
                   /\ ph.verificationMessage \in {Undefined, "function"}

SettingsObjectsAcceptedFalseRejected ==
    /\ pc = "checked"
    /\ props.loginWith.email.kind = "false"
    /\ ~assignable.EmailLogin
    /\ props.loginWith.phone.kind = "object"
    /\ props.loginWith.phone.verificationMessage = "function"
    /\ assignable.PhoneNumberLogin

\* C3 as stated: an accepted externalProviders value holds at most five
\* identity-provider fields, the type declaring exactly five.
AtMostFiveProviders ==
    (pc # "authored" /\ assignable.ExternalProviderOptions) =>
        Cardinality(props.loginWith.externalProviders.keys \ {"scopes"}) <= 5

\* C3 amended: ExternalProviderOptions has exactly six identity-provider
\* fields (google, facebook, loginWithAmazon, signInWithApple, oidc, saml),
\* each optional, and besides them only scopes, callbackUrls and logoutUrls;
\* any subset of the six providers, including none, is accepted.
SixOptionalProviders ==
    (pc # "authored" /\ props.loginWith.externalProviders.kind = "object") =>
        LET ep == props.loginWith.externalProviders
            urlsFine(a) ==
                \/ a.kind = "undefined"
                \/ \A i \in 1..Len(a.items) : a.items[i] = "string"
        IN  assignable.ExternalProviderOptions <=>
                /\ ep.keys \subseteq
                       {"google", "facebook", "loginWithAmazon",
                        "signInWithApple", "oidc", "saml", "scopes"}
                /\ urlsFine(ep.callbackUrls)
                /\ urlsFine(ep.logoutUrls)

AllSixProvidersAccepted ==
    /\ pc = "checked"
    /\ assignable.ExternalProviderOptions
    /\ Cardinality(props.loginWith.externalProviders.keys \ {"scopes"}) = 6

AccountRecoveryDefault ==
    pc = "constructed" =>
        LET emailOn == props.loginWith.email.kind \in {"true", "object"}
            phoneOn == props.loginWith.phone.kind \in {"true", "object"}
        IN  IF props.accountRecovery # Undefined
            THEN userPool.accountRecovery = props.accountRecovery
            ELSE /\ (emailOn /\ phoneOn)
                        => userPool.accountRecovery = "EMAIL_ONLY"
                 /\ (emailOn /\ ~phoneOn)
                        => userPool.accountRecovery = "EMAIL_ONLY"
                 /\ (~emailOn /\ phoneOn)
                        => userPool.accountRecovery = "PHONE_ONLY_WITHOUT_MFA"

BothLoginsDefaultToEmail ==
    /\ pc = "constructed"
    /\ props.accountRecovery = Undefined
    /\ props.loginWith.email.kind = "object"
    /\ props.loginWith.phone.kind = "true"
    /\ userPool.accountRecovery = "EMAIL_ONLY"

\* C6: a multifactor value given without enforcementType (totp and sms being
\* of their types) is accepted and its effective enforcement mode is OFF.
EnforcementTypeDefaultsToOff ==
    LET mf == props.multifactor
    IN  (/\ pc # "authored"
         /\ mf.kind = "object"
         /\ mf.enforcementType = Undefined
         /\ mf.totp \in {"true", "false"}
         /\ mf.sms.kind \in {"true", "false"})
        => /\ assignable.MFA
           /\ assignable.AuthProps
           /\ pc = "constructed" => userPool.mfa = "OFF"

====
